---------------------------- MODULE Spec2Model ----------------------------
(***************************************************************************)
(* Model of list() (src/src/utils/list.ts): the reconciliation of the      *)
(* owner feed, the minter feed and the deletion feed of the ledger query   *)
(* service (src/LOCAL_API_SERVER.md) into one table of files.              *)
(*                                                                         *)
(* JavaScript strings that the code inspects are sequences of one-letter   *)
(* strings; a JavaScript object is a sequence of [key, value] pairs in     *)
(* insertion order (all keys are non-numeric strings).                     *)
(***************************************************************************)
EXTENDS Integers, Sequences, FiniteSets, TLC

(***************************************************************************)
(* Bounds of the model.                                                    *)
(***************************************************************************)
\* records in the ledger snapshot of a reconciliation scenario
MaxRecs == 3
\* records per feed in a pagination scenario
MaxFeedLen == 3

(***************************************************************************)
(* JavaScript values.                                                      *)
(***************************************************************************)
\* the value undefined, where a string is expected
Undef == <<"undefined">>

Truthy(v) == v # Undef /\ v # <<>>

\* a || b
OrElse(a, b) == IF Truthy(a) THEN a ELSE b

Range(s) == {s[i] : i \in 1..Len(s)}

\* the lower-case form of the upper-case letters in use
LowerOf ==
    [c \in {"A", "B", "C", "D", "E", "F"} |->
       CASE c = "A" -> "a" [] c = "B" -> "b" [] c = "C" -> "c"
         [] c = "D" -> "d" [] c = "E" -> "e" [] OTHER -> "f"]

LowerChar(c) == IF c \in DOMAIN LowerOf THEN LowerOf[c] ELSE c

\* String.prototype.toLowerCase
ToLowerCase(s) == [i \in 1..Len(s) |-> LowerChar(s[i])]

\* String.prototype.includes / startsWith / endsWith
Includes(s, t) ==
    \E i \in 0..(Len(s) - Len(t)) : SubSeq(s, i + 1, i + Len(t)) = t
StartsWith(s, t) == Len(t) <= Len(s) /\ SubSeq(s, 1, Len(t)) = t
EndsWith(s, t) ==
    Len(t) <= Len(s) /\ SubSeq(s, Len(s) - Len(t) + 1, Len(s)) = t

(***************************************************************************)
(* Objects: sequences of [key, value] in insertion order.                  *)
(***************************************************************************)
Keys(obj) == [i \in 1..Len(obj) |-> obj[i].key]

HasKey(obj, k) == \E i \in 1..Len(obj) : obj[i].key = k

\* obj[k] = v
ObjSet(obj, k, v) ==
    IF HasKey(obj, k)
    THEN [i \in 1..Len(obj) |->
            IF obj[i].key = k THEN [key |-> k, value |-> v] ELSE obj[i]]
    ELSE Append(obj, [key |-> k, value |-> v])

(***************************************************************************)
(* Metadata.  fileMetadata is a text; the texts in use are named here.     *)
(* An object is what JSON.parse makes of a text: its fields are the         *)
(* members the code reads (fsi* are the members of filecoinStorageInfo,    *)
(* ipfsHash the member of encryptedData) and json is its compact text.     *)
(***************************************************************************)
Object(json, name, type, fsiCID, fsiCid, topCID, topCid, ipfsHash) ==
    [json |-> json, name |-> name, type |-> type,
     mimeType |-> Undef, subtype |-> Undef, accessType |-> Undef,
     fsiPieceCID |-> fsiCID, fsiPieceCid |-> fsiCid,
     pieceCID |-> topCID, pieceCid |-> topCid, ipfsHash |-> ipfsHash]

Cid1 == <<"c", "1">>
Cid2 == <<"c", "2">>

\* a stored file, locator under filecoinStorageInfo.pieceCID; the text is
\* laid out with spaces
MetaStored == "{ stored }"
\* a stored file without a name, locator under filecoinStorageInfo.pieceCid
MetaStoredNoName == "{storedNoName}"
\* a file that still carries the encrypted pointer
MetaPointer == "{pointer}"
\* a text that is not JSON
MetaBroken == "{broken"
\* a file whose locator is the top-level pieceCID only
MetaTopLevel == "{topLevel}"
\* a file with no locator and no encrypted pointer
MetaNoLocator == "{noLocator}"
\* stored files named a and b
MetaNameA == "{nameA}"
MetaNameB == "{nameB}"
\* a file with both nested casings, of different values
MetaBothCasings == "{bothCasings}"
\* a file with the nested pieceCid and, of another value, both top-level
\* fields
MetaNestedAndTop == "{nestedAndTop}"
\* a file whose nested pieceCID is the empty string, with a nested pieceCid
MetaEmptyUpper == "{emptyUpper}"
\* a file with both top-level fields only, of different values
MetaTopBoth == "{topBoth}"
\* a file with the top-level pieceCid only
MetaTopLower == "{topLower}"

\* the texts that are JSON, and the objects they denote
JsonObjects ==
    LET stored == Object("{stored}", <<"a", "B">>, <<"f">>,
                         Cid1, Undef, Undef, Undef, Undef)
    IN (MetaStored :> stored)
       @@ ("{stored}" :> stored)
       @@ (MetaStoredNoName :>
             Object(MetaStoredNoName, Undef, <<"f">>,
                    Undef, Cid2, Undef, Undef, Undef))
       @@ (MetaPointer :>
             Object(MetaPointer, <<"b">>, <<"f">>,
                    Cid1, Undef, Undef, Undef, <<"Q">>))
       @@ (MetaTopLevel :>
             Object(MetaTopLevel, <<"c">>, <<"f">>,
                    Undef, Undef, Cid2, Undef, Undef))
       @@ (MetaNoLocator :>
             Object(MetaNoLocator, <<"d">>, <<"f">>,
                    Undef, Undef, Undef, Undef, Undef))
       @@ (MetaNameA :>
             Object(MetaNameA, <<"a">>, <<"f">>,
                    Cid1, Undef, Undef, Undef, Undef))
       @@ (MetaNameB :>
             Object(MetaNameB, <<"b">>, <<"f">>,
                    Cid1, Undef, Undef, Undef, Undef))
       @@ (MetaBothCasings :>
             Object(MetaBothCasings, <<"a">>, <<"f">>,
                    Cid1, Cid2, Undef, Undef, Undef))
       @@ (MetaNestedAndTop :>
             Object(MetaNestedAndTop, <<"b">>, <<"f">>,
                    Undef, Cid2, Cid1, Cid1, Undef))
       @@ (MetaEmptyUpper :>
             Object(MetaEmptyUpper, <<"c">>, <<"f">>,
                    <<>>, Cid2, Undef, Undef, Undef))
       @@ (MetaTopBoth :>
             Object(MetaTopBoth, <<"d">>, <<"f">>,
                    Undef, Undef, Cid1, Cid2, Undef))
       @@ (MetaTopLower :>
             Object(MetaTopLower, <<"d">>, <<"f">>,
                    Undef, Undef, Undef, Cid2, Undef))

\* JSON.parse accepts the text
CanParse(text) == text \in DOMAIN JsonObjects
\* JSON.parse of a text it accepts
JsonParse(text) == JsonObjects[text]
\* JSON.stringify
JsonStringify(obj) == obj.json

(***************************************************************************)
(* Records of the ledger.                                                  *)
(***************************************************************************)
Rec(id, meta, contract, owner) ==
    [fileIdentifier |-> id, fileMetadata |-> meta,
     fileContractAddress |-> contract, fileOwner |-> owner]

IdA == <<"0", "x", "A">>
Ida == <<"0", "x", "a">>
Idb == <<"0", "x", "b">>
Idc == <<"0", "x", "c">>
Idd == <<"0", "x", "d">>

\* the records of a reconciliation scenario: one identifier in two
\* spellings, with and without a locator, and a second identifier
RecordPool ==
    { Rec(IdA, MetaStored, "0xc1", "0xo1"),
      Rec(Ida, MetaStoredNoName, "0xc2", "0xo2"),
      Rec(Ida, MetaPointer, "0xc3", "0xo1"),
      Rec(Idb, MetaStored, "0xc1", "0xo1") }

\* a record whose metadata is not JSON
BrokenRecord == Rec(Idb, MetaBroken, "0xc2", "0xo2")

\* a record of the first identifier whose metadata is not JSON
BrokenTwin == Rec(Ida, MetaBroken, "0xc3", "0xo2")

\* the records of a sorting scenario: four files named b, (no name), a, a
SortPool ==
    { Rec(Ida, MetaNameB, "0xc1", "0xo1"),
      Rec(Idb, MetaStoredNoName, "0xc2", "0xo2"),
      Rec(Idc, MetaNameA, "0xc1", "0xo1"),
      Rec(Idd, MetaNameA, "0xc3", "0xo1") }

\* the records of a filtering scenario: four files named aB, (no name),
\* b, a
FilterPool ==
    { Rec(Ida, MetaStored, "0xc1", "0xo1"),
      Rec(Idb, MetaStoredNoName, "0xc2", "0xo2"),
      Rec(Idc, MetaNameB, "0xc1", "0xo1"),
      Rec(Idd, MetaNameA, "0xc3", "0xo1") }

\* the records of a gate scenario: a locator at the top level only, no
\* locator at all, and a locator under filecoinStorageInfo
GatePool ==
    { Rec(Ida, MetaTopLevel, "0xc2", "0xo2"),
      Rec(Idb, MetaNoLocator, "0xc1", "0xo1"),
      Rec(Idb, MetaStoredNoName, "0xc3", "0xo1") }

\* the records of a locator scenario: the locator under one or several of
\* its four places, under none, and beside the encrypted pointer
LocatorPool ==
    { Rec(Ida, MetaBothCasings, "0xc1", "0xo1"),
      Rec(Idb, MetaNestedAndTop, "0xc1", "0xo1"),
      Rec(Idc, MetaEmptyUpper, "0xc2", "0xo1"),
      Rec(Idd, MetaTopBoth, "0xc2", "0xo2"),
      Rec(Idd, MetaTopLower, "0xc3", "0xo2"),
      Rec(Ida, MetaNoLocator, "0xc3", "0xo2"),
      Rec(Idb, MetaPointer, "0xc3", "0xo1") }

Digits == <<"1", "2", "3", "4", "5", "6", "7", "8", "9">>

\* the i-th record of a feed in a pagination scenario
FeedRec(feed, i) ==
    Rec(<<"0", "x", IF feed = "owner" THEN "d" ELSE "e", Digits[i]>>,
        MetaStored, "0xc1", "0xo1")

\* the decimal digits of identifiers
DecimalDigit == <<"0">> \o Digits

\* the i-th record of a scenario with more records than one deletion check
\* may name, i below 1000
BatchRec(i) ==
    Rec(<<"0", "x", DecimalDigit[(i \div 100) + 1],
          DecimalDigit[((i \div 10) % 10) + 1], DecimalDigit[(i % 10) + 1]>>,
        MetaStored, "0xc1", "0xo1")

Feeds == {"owner", "minter"}

Other(f) == IF f = "owner" THEN "minter" ELSE "owner"

(***************************************************************************)
(* The record normalizer (list.ts 136-169).                                *)
(***************************************************************************)
\* variant: the top-level fields are looked at before the nested ones
ExtractMetadata_TopLevelFirst(fileMetadata) ==
    [name |-> fileMetadata.name,
     type |-> fileMetadata.type,
     mimeType |-> fileMetadata.mimeType,
     subtype |-> fileMetadata.subtype,
     pieceCid |-> OrElse(fileMetadata.pieceCID,
                   OrElse(fileMetadata.pieceCid,
                     OrElse(fileMetadata.fsiPieceCID,
                            fileMetadata.fsiPieceCid))),
     accessType |-> fileMetadata.accessType,
     userMetaData |-> JsonStringify(fileMetadata)]

ExtractMetadata(fileMetadata) ==
    [name |-> fileMetadata.name,
     type |-> fileMetadata.type,
     mimeType |-> fileMetadata.mimeType,
     subtype |-> fileMetadata.subtype,
     pieceCid |-> OrElse(fileMetadata.fsiPieceCID,
                   OrElse(fileMetadata.fsiPieceCid,
                     OrElse(fileMetadata.pieceCID, fileMetadata.pieceCid))),
     accessType |-> fileMetadata.accessType,
     userMetaData |-> JsonStringify(fileMetadata)]

\* variant: a locator at the top level counts as storage too
HasFilecoinStorage_TopLevelToo(fileMetadata) ==
    Truthy(OrElse(fileMetadata.fsiPieceCID,
             OrElse(fileMetadata.fsiPieceCid,
               OrElse(fileMetadata.pieceCID, fileMetadata.pieceCid))))

HasFilecoinStorage(fileMetadata) ==
    Truthy(OrElse(fileMetadata.fsiPieceCID, fileMetadata.fsiPieceCid))

\* variant: the encrypted pointer is not looked at
HasRequiredMetadata_IgnoresPointer(fileMetadata) ==
    HasFilecoinStorage(fileMetadata)

HasRequiredMetadata(fileMetadata) ==
    IF ~HasFilecoinStorage(fileMetadata) THEN FALSE
    ELSE IF Truthy(fileMetadata.ipfsHash) THEN FALSE
    ELSE TRUE

(***************************************************************************)
(* The field predicate (list.ts 171-189).  filterBy is <<>> when not       *)
(* given, else <<[field, value, operator]>>.                               *)
(***************************************************************************)
\* the members of dataMetadata that hold strings
TextFields == {"name", "type", "mimeType", "subtype", "pieceCid", "accessType"}

\* file.dataMetadata[field]
FieldValue(file, field) ==
    IF field \in TextFields THEN file.dataMetadata[field] ELSE Undef

\* variant: an absent field passes
MatchesFilter_AbsentPasses(file, filterBy) ==
    IF filterBy = <<>> THEN TRUE
    ELSE LET f == filterBy[1]
             fieldValue == FieldValue(file, f.field)
             have == ToLowerCase(fieldValue)
             want == ToLowerCase(f.value)
         IN CASE f.operator = "contains" -> Includes(have, want)
              [] f.operator = "startsWith" -> StartsWith(have, want)
              [] f.operator = "endsWith" -> EndsWith(have, want)
              [] OTHER -> have = want

MatchesFilter(file, filterBy) ==
    IF filterBy = <<>> THEN TRUE
    ELSE LET f == filterBy[1]
             fieldValue == FieldValue(file, f.field)
             have == ToLowerCase(fieldValue)
             want == ToLowerCase(f.value)
         IN IF fieldValue = Undef THEN FALSE
            ELSE CASE f.operator = "contains" -> Includes(have, want)
                   [] f.operator = "startsWith" -> StartsWith(have, want)
                   [] f.operator = "endsWith" -> EndsWith(have, want)
                   [] OTHER -> have = want

(***************************************************************************)
(* The merge (list.ts 191-300).  ownerData and minterData are the          *)
(* accumulators of the two fetch loops.                                    *)
(***************************************************************************)
\* variant: the identifier is used as spelled
DataIdentifier_AsSpelled(file) == file.fileIdentifier

DataIdentifier(file) == ToLowerCase(file.fileIdentifier)

\* variant: pass 1 reads the owner feed only
AccessMintedFileIds_OwnerOnly(ownerData, minterData) ==
    {ToLowerCase(file.fileIdentifier) :
        file \in Range(ownerData.permissionedFileAccessMinteds)}

\* pass 1 (list.ts 195-204)
AccessMintedFileIds(ownerData, minterData) ==
    {DataIdentifier(file) :
        file \in Range(ownerData.permissionedFileAccessMinteds)}
    \cup
    {DataIdentifier(file) :
        file \in Range(minterData.permissionedFileAccessMinteds)}

\* variant: a later record replaces the entry
IsProcessed_Never(processedFileIds, dataIdentifier) == FALSE

\* processedFileIds.has(dataIdentifier)
IsProcessed(processedFileIds, dataIdentifier) ==
    dataIdentifier \in processedFileIds

\* variant: only an entry made from an access-minted record is marked
IsAccessMinted_StreamOnly(accessMinted, accessMintedFileIds, dataIdentifier) ==
    accessMinted

\* the value of isAccessMinted: looked up for a deployed record, true for
\* an access-minted one
IsAccessMinted(accessMinted, accessMintedFileIds, dataIdentifier) ==
    IF accessMinted THEN TRUE ELSE dataIdentifier \in accessMintedFileIds

FileData(file, fileMetadata, dataIdentifier, isAccessMinted) ==
    [cid |-> OrElse(fileMetadata.fsiPieceCID,
                    OrElse(fileMetadata.fsiPieceCid, <<>>)),
     dataContractAddress |-> file.fileContractAddress,
     dataIdentifier |-> dataIdentifier,
     dataMetadata |-> ExtractMetadata(fileMetadata),
     owner |-> file.fileOwner,
     isAccessMinted |-> isAccessMinted]

\* variant: a record that fails the gate reserves its identifier
ProcessFile_GateReserves(st, file, accessMinted, accessMintedFileIds, filterBy) ==
    LET dataIdentifier == DataIdentifier(file)
        fileMetadata == JsonParse(file.fileMetadata)
        fileData == FileData(file, fileMetadata, dataIdentifier,
                      IsAccessMinted(accessMinted, accessMintedFileIds,
                                     dataIdentifier))
    IN IF st.threw \/ IsProcessed(st.processedFileIds, dataIdentifier) THEN st
       ELSE IF ~CanParse(file.fileMetadata) THEN [st EXCEPT !.threw = TRUE]
       ELSE IF ~HasRequiredMetadata(fileMetadata)
       THEN [st EXCEPT
               !.processedFileIds = st.processedFileIds \cup {dataIdentifier}]
       ELSE IF ~MatchesFilter(fileData, filterBy) THEN st
       ELSE [st EXCEPT
               !.allFiles = ObjSet(st.allFiles, dataIdentifier, fileData),
               !.processedFileIds = st.processedFileIds \cup {dataIdentifier}]

\* variant: a record whose metadata does not parse is skipped
ProcessFile_SkipsUnparseable(st, file, accessMinted, accessMintedFileIds, filterBy) ==
    LET dataIdentifier == DataIdentifier(file)
        fileMetadata == JsonParse(file.fileMetadata)
        fileData == FileData(file, fileMetadata, dataIdentifier,
                      IsAccessMinted(accessMinted, accessMintedFileIds,
                                     dataIdentifier))
    IN IF IsProcessed(st.processedFileIds, dataIdentifier) THEN st
       ELSE IF ~CanParse(file.fileMetadata) THEN st
       ELSE IF ~HasRequiredMetadata(fileMetadata) THEN st
       ELSE IF ~MatchesFilter(fileData, filterBy) THEN st
       ELSE [st EXCEPT
               !.allFiles = ObjSet(st.allFiles, dataIdentifier, fileData),
               !.processedFileIds = st.processedFileIds \cup {dataIdentifier}]

\* the body of one of the four loops; st.threw records that JSON.parse threw
ProcessFile(st, file, accessMinted, accessMintedFileIds, filterBy) ==
    LET dataIdentifier == DataIdentifier(file)
        \* evaluated only where the text has parsed
        fileMetadata == JsonParse(file.fileMetadata)
        fileData == FileData(file, fileMetadata, dataIdentifier,
                      IsAccessMinted(accessMinted, accessMintedFileIds,
                                     dataIdentifier))
    IN IF st.threw \/ IsProcessed(st.processedFileIds, dataIdentifier) THEN st
       ELSE IF ~CanParse(file.fileMetadata) THEN [st EXCEPT !.threw = TRUE]
       ELSE IF ~HasRequiredMetadata(fileMetadata) THEN st
       ELSE IF ~MatchesFilter(fileData, filterBy) THEN st
       ELSE [st EXCEPT
               !.allFiles = ObjSet(st.allFiles, dataIdentifier, fileData),
               !.processedFileIds = st.processedFileIds \cup {dataIdentifier}]

\* one for-of loop: the files in their order, the first half and then,
\* unless JSON.parse has thrown, the second
RECURSIVE ProcessFiles(_, _, _, _, _)
ProcessFiles(st, files, accessMinted, accessMintedFileIds, filterBy) ==
    IF files = <<>> THEN st
    ELSE IF Len(files) = 1
    THEN ProcessFile(st, files[1], accessMinted, accessMintedFileIds, filterBy)
    ELSE LET half == Len(files) \div 2
             st1 == ProcessFiles(st, SubSeq(files, 1, half), accessMinted,
                                 accessMintedFileIds, filterBy)
         IN IF st1.threw THEN st1
            ELSE ProcessFiles(st1, SubSeq(files, half + 1, Len(files)),
                              accessMinted, accessMintedFileIds, filterBy)

\* the four loops in their order
MergeFiles(ownerData, minterData, filterBy) ==
    LET ids == AccessMintedFileIds(ownerData, minterData)
        s0 == [allFiles |-> <<>>, processedFileIds |-> {}, threw |-> FALSE]
        s1 == ProcessFiles(s0, ownerData.permissionedFileDeployeds,
                           FALSE, ids, filterBy)
        s2 == ProcessFiles(s1, ownerData.permissionedFileAccessMinteds,
                           TRUE, ids, filterBy)
        s3 == ProcessFiles(s2, minterData.permissionedFileDeployeds,
                           FALSE, ids, filterBy)
    IN ProcessFiles(s3, minterData.permissionedFileAccessMinteds,
                    TRUE, ids, filterBy)

(***************************************************************************)
(* The deletion filter (list.ts 302-336).  A deletion map is a function    *)
(* from some identifiers to BOOLEAN.                                       *)
(***************************************************************************)
\* variant: an identifier missing from the map counts as deleted
IsDeleted_MissingDeleted(deletionStatuses, dataIdentifier) ==
    IF dataIdentifier \in DOMAIN deletionStatuses
    THEN deletionStatuses[dataIdentifier]
    ELSE TRUE

\* deletionStatuses[dataIdentifier] || false
IsDeleted(deletionStatuses, dataIdentifier) ==
    IF dataIdentifier \in DOMAIN deletionStatuses
    THEN deletionStatuses[dataIdentifier]
    ELSE FALSE

\* variant: the test is inverted, the flagged entries are the ones kept
RECURSIVE FilterDeleted_KeepsFlagged(_, _, _)
FilterDeleted_KeepsFlagged(finalFiles, entries, deletionStatuses) ==
    IF entries = <<>> THEN finalFiles
    ELSE FilterDeleted_KeepsFlagged(
           IF IsDeleted(deletionStatuses, Head(entries).key)
           THEN ObjSet(finalFiles, Head(entries).key, Head(entries).value)
           ELSE finalFiles,
           Tail(entries), deletionStatuses)

RECURSIVE FilterDeleted(_, _, _)
FilterDeleted(finalFiles, entries, deletionStatuses) ==
    IF entries = <<>> THEN finalFiles
    ELSE FilterDeleted(
           IF ~IsDeleted(deletionStatuses, Head(entries).key)
           THEN ObjSet(finalFiles, Head(entries).key, Head(entries).value)
           ELSE finalFiles,
           Tail(entries), deletionStatuses)

\* Object.assign: the members of source in their order, the first half and
\* then the second
RECURSIVE ObjectAssign(_, _)
ObjectAssign(target, source) ==
    IF source = <<>> THEN target
    ELSE IF Len(source) = 1
    THEN ObjSet(target, source[1].key, source[1].value)
    ELSE LET half == Len(source) \div 2
             rest == SubSeq(source, half + 1, Len(source))
             first == ObjectAssign(target, SubSeq(source, 1, half))
         IN IF first = <<>> THEN ObjectAssign(<<>>, rest)
            ELSE ObjectAssign(first, rest)

\* variant: the catch branch leaves finalFiles as it is
IncludeAllFiles_Nothing(finalFiles, allFiles) == finalFiles

\* the catch branch: every merged file is included
IncludeAllFiles(finalFiles, allFiles) == ObjectAssign(finalFiles, allFiles)

(***************************************************************************)
(* Sorting (list.ts 338-357).  sortBy is <<>> when not given, else         *)
(* <<[field, direction]>>.                                                 *)
(***************************************************************************)
\* the collation order of the characters in use (digits before letters)
Collation == <<"0", "1", "2", "3", "4", "5", "6", "7", "8", "9",
               "a", "b", "c", "d", "e", "f", "x">>

CharRank(c) ==
    IF \E i \in 1..Len(Collation) : Collation[i] = c
    THEN CHOOSE i \in 1..Len(Collation) : Collation[i] = c
    ELSE 0

RECURSIVE LexCompare(_, _)
LexCompare(s, t) ==
    IF s = <<>> /\ t = <<>> THEN 0
    ELSE IF s = <<>> THEN -1
    ELSE IF t = <<>> THEN 1
    ELSE IF CharRank(Head(s)) < CharRank(Head(t)) THEN -1
    ELSE IF CharRank(Head(s)) > CharRank(Head(t)) THEN 1
    ELSE LexCompare(Tail(s), Tail(t))

\* at the first difference of two strings equal up to case, lower case first
RECURSIVE CaseCompare(_, _)
CaseCompare(s, t) ==
    IF s = <<>> \/ t = <<>> THEN 0
    ELSE IF Head(s) = Head(t) THEN CaseCompare(Tail(s), Tail(t))
    ELSE IF Head(s) = LowerChar(Head(s)) THEN -1 ELSE 1

\* String.prototype.localeCompare under the default collation: letters
\* first, case as the tie-break
LocaleCompare(s, t) ==
    LET primary == LexCompare(ToLowerCase(s), ToLowerCase(t))
    IN IF primary # 0 THEN primary ELSE CaseCompare(s, t)

\* variant: an absent value compares greater than a present one
CompareEntries_AbsentLast(a, b, sortBy) ==
    LET aValue == FieldValue(a, sortBy.field)
        bValue == FieldValue(b, sortBy.field)
        comparison == LocaleCompare(aValue, bValue)
    IN IF aValue = Undef /\ bValue = Undef THEN 0
       ELSE IF aValue = Undef THEN (IF sortBy.direction = "desc" THEN -1 ELSE 1)
       ELSE IF bValue = Undef THEN (IF sortBy.direction = "desc" THEN 1 ELSE -1)
       ELSE IF sortBy.direction = "desc" THEN -comparison ELSE comparison

\* the comparator given to sort
CompareEntries(a, b, sortBy) ==
    LET aValue == FieldValue(a, sortBy.field)
        bValue == FieldValue(b, sortBy.field)
        comparison == LocaleCompare(aValue, bValue)
    IN IF aValue = Undef /\ bValue = Undef THEN 0
       ELSE IF aValue = Undef THEN (IF sortBy.direction = "desc" THEN 1 ELSE -1)
       ELSE IF bValue = Undef THEN (IF sortBy.direction = "desc" THEN -1 ELSE 1)
       ELSE IF sortBy.direction = "desc" THEN -comparison ELSE comparison

\* variant: an entry goes before the entries that compare equal to it
RECURSIVE InsertEntry_BeforeEqual(_, _, _)
InsertEntry_BeforeEqual(sorted, e, sortBy) ==
    IF sorted = <<>> THEN <<e>>
    ELSE IF CompareEntries(Head(sorted).value, e.value, sortBy) >= 0
         THEN <<e>> \o sorted
         ELSE <<Head(sorted)>> \o InsertEntry_BeforeEqual(Tail(sorted), e, sortBy)

\* Array.prototype.sort is stable: an entry goes after every entry that
\* does not compare greater than it
RECURSIVE InsertEntry(_, _, _)
InsertEntry(sorted, e, sortBy) ==
    IF sorted = <<>> THEN <<e>>
    ELSE IF CompareEntries(Head(sorted).value, e.value, sortBy) > 0
         THEN <<e>> \o sorted
         ELSE <<Head(sorted)>> \o InsertEntry(Tail(sorted), e, sortBy)

RECURSIVE SortEntries(_, _, _)
SortEntries(sorted, entries, sortBy) ==
    IF entries = <<>> THEN sorted
    ELSE SortEntries(InsertEntry(sorted, Head(entries), sortBy),
                     Tail(entries), sortBy)

\* what list() returns for finalFiles
Projected(finalFiles, sortBy) ==
    IF sortBy # <<>>
    THEN ObjectAssign(<<>>, SortEntries(<<>>, finalFiles, sortBy[1]))
    ELSE finalFiles

(***************************************************************************)
(* Options of list() (list.ts 22-24).  An optional number is <<>> when     *)
(* not given, else <<n>>, or NaN, which parseInt gives for a text that is  *)
(* not a number (list-encrypted.ts 64-69).                                 *)
(***************************************************************************)
DefaultPageSize == 100

\* the number that is not a number: a value of its own, equal to no <<n>>
NaN == <<0, 0>>

\* the optional number is undefined, 0 or NaN
Falsy(number) == number = <<>> \/ number = NaN \/ number[1] = 0

\* filter?.pagination?.pageSize || 100
PageSizeOf(pagination) ==
    IF Falsy(pagination.pageSize)
    THEN DefaultPageSize
    ELSE pagination.pageSize[1]

\* variant: only an absent maxPages is replaced (??), 0 and NaN are kept
MaxPagesOf_ZeroKept(pagination) ==
    IF pagination.maxPages = NaN THEN <<-1>> ELSE pagination.maxPages

\* filter?.pagination?.maxPages || Infinity; <<>> stands for Infinity
MaxPagesOf(pagination) ==
    IF Falsy(pagination.maxPages)
    THEN <<>>
    ELSE pagination.maxPages

\* page < maxPages
PageBelow(page, maxPages) == maxPages = <<>> \/ page < maxPages[1]

(***************************************************************************)
(* The ledger query service (LOCAL_API_SERVER.md): a page of a collection  *)
(* is its records skip+1 .. skip+first in ledger order.                    *)
(***************************************************************************)
Min(a, b) == IF a < b THEN a ELSE b

PageOf(records, skip, first) ==
    SubSeq(records, skip + 1, Min(skip + first, Len(records)))

EmptyBody ==
    [permissionedFileDeployeds |-> <<>>, permissionedFileAccessMinteds |-> <<>>]

\* the response to a request, given what the service does with it:
\* failed says that fetch itself rejected, json that the body is JSON
HttpResponse(kind, body) ==
    CASE kind = "ok" ->
           [failed |-> FALSE, status |-> 200, json |-> TRUE, body |-> body]
      [] kind = "http429" ->
           [failed |-> FALSE, status |-> 429, json |-> TRUE, body |-> EmptyBody]
      [] kind = "http400" ->
           [failed |-> FALSE, status |-> 400, json |-> TRUE, body |-> EmptyBody]
      [] kind = "http500" ->
           [failed |-> FALSE, status |-> 500, json |-> TRUE, body |-> EmptyBody]
      [] kind = "badjson" ->
           [failed |-> FALSE, status |-> 200, json |-> FALSE, body |-> EmptyBody]
      [] OTHER ->
           [failed |-> TRUE, status |-> 0, json |-> FALSE, body |-> EmptyBody]

\* the most identifiers isDeleted takes in one request
\* (LOCAL_API_SERVER.md 448-451)
BatchLimit == 100

FaultKinds == {"http429", "http500", "badjson", "network"}

\* Response.ok
ResponseOk(response) == response.status \in 200..299

NoError == [name |-> "none", status |-> 0]

\* variant: the status of the response is not looked at
FetchPage_AnyStatus(response) ==
    IF response.failed
    THEN [threw |-> TRUE, error |-> [name |-> "TypeError", status |-> 0],
          pageData |-> EmptyBody]
    ELSE IF ~response.json
    THEN [threw |-> TRUE, error |-> [name |-> "SyntaxError", status |-> 0],
          pageData |-> EmptyBody]
    ELSE [threw |-> FALSE, error |-> NoError, pageData |-> response.body]

\* variant: a rate-limit response is read like a page
FetchPage_RateLimitPasses(response) ==
    IF response.failed
    THEN [threw |-> TRUE, error |-> [name |-> "TypeError", status |-> 0],
          pageData |-> EmptyBody]
    ELSE IF ~ResponseOk(response) /\ response.status # 429
    THEN [threw |-> TRUE,
          error |-> [name |-> "API request failed", status |-> response.status],
          pageData |-> EmptyBody]
    ELSE IF ~response.json
    THEN [threw |-> TRUE, error |-> [name |-> "SyntaxError", status |-> 0],
          pageData |-> EmptyBody]
    ELSE [threw |-> FALSE, error |-> NoError, pageData |-> response.body]

\* fetchPage (list.ts 31-51), from the response on
FetchPage(response) ==
    IF response.failed
    THEN [threw |-> TRUE, error |-> [name |-> "TypeError", status |-> 0],
          pageData |-> EmptyBody]
    ELSE IF ~ResponseOk(response)
    THEN [threw |-> TRUE,
          error |-> [name |-> "API request failed", status |-> response.status],
          pageData |-> EmptyBody]
    ELSE IF ~response.json
    THEN [threw |-> TRUE, error |-> [name |-> "SyntaxError", status |-> 0],
          pageData |-> EmptyBody]
    ELSE [threw |-> FALSE, error |-> NoError, pageData |-> response.body]

\* areFilesDeleted (list.ts 54-69), from the response on; the body of a
\* deletion response is [hasDeletedFiles, deletedFiles]
AreFilesDeleted(response) ==
    IF response.failed \/ ~ResponseOk(response) \/ ~response.json
    THEN [threw |-> TRUE, deletionStatuses |-> << >>]
    ELSE [threw |-> FALSE,
          deletionStatuses |-> IF response.body.hasDeletedFiles
                               THEN response.body.deletedFiles
                               ELSE << >>]

(***************************************************************************)
(* State.                                                                  *)
(***************************************************************************)
VARIABLES
    ledger,           \* the service's records: [feed -> the two collections]
    faults,           \* the ways the service may fail a page request
    options,          \* the filter argument: [filterBy, sortBy, pagination]
    listPc,           \* "idle", "fetching", "checking", "returned", "rejected"
    loop,             \* [feed -> [pc, skip, page, hasMore, allData]] of fetchAllPages
    requests,         \* [feed -> the page requests sent, as [skip, first]]
    responses,        \* [feed -> the page responses received]
    arrival,          \* while list() runs, the feeds in the order their loops completed
    allFiles,         \* the merged table
    deletedRequests,  \* the identifier arrays sent to isDeleted
    deletedResponses, \* the responses received from isDeleted
    result,           \* the object list() resolved with, when listPc = "returned"
    error,            \* the error list() rejected with, when listPc = "rejected"
    parked,           \* the locals of a second call of list(), while it waits; else <<>>
    retryCall         \* a call of the server's requestWithRetry: [pc, maxRetries, attempt, outcomes, delays, error]

vars == <<ledger, faults, options, listPc, loop, requests, responses,
          arrival, allFiles, deletedRequests, deletedResponses, result, error,
          parked, retryCall>>

pageSize == PageSizeOf(options.pagination)
maxPages == MaxPagesOf(options.pagination)

NewLoop ==
    [pc |-> "idle", skip |-> 0, page |-> 0, hasMore |-> TRUE,
     allData |-> EmptyBody]

\* what the service answers to the last request of a feed: the page, or a
\* failure of the given kind
ServiceResponse(f, kind) ==
    LET req == requests[f][Len(requests[f])]
    IN HttpResponse(kind,
         [permissionedFileDeployeds |->
            PageOf(ledger[f].permissionedFileDeployeds, req.skip, req.first),
          permissionedFileAccessMinteds |->
            PageOf(ledger[f].permissionedFileAccessMinteds, req.skip,
                   req.first)])

(***************************************************************************)
(* requestWithRetry of the documented server (LOCAL_API_SERVER.md 397-415). *)
(* maxRetries is <<>> when the caller gives none; an outcome is what one   *)
(* request(...) did: [kind, retryAfter], retryAfter the header as parseInt *)
(* reads it, <<>> when the response has none.                              *)
(***************************************************************************)
MaxRetriesGiven == 4

DefaultMaxRetries == 3

MaxDelay == 30000

\* maxRetries: number = 3
MaxRetriesOf(given) == IF given = <<>> THEN DefaultMaxRetries ELSE given[1]

\* the retry-after headers in use: none, 0, 1, 8, 40 and a date
RetryAfterHeaders == {<<>>, <<0>>, <<1>>, <<8>>, <<40>>, NaN}

\* what one request may do
Outcomes ==
    {[kind |-> k, retryAfter |-> <<>>] : k \in {"ok", "http500", "network"}}
      \cup {[kind |-> "http429", retryAfter |-> h] : h \in RetryAfterHeaders}

\* parseInt(error.response.headers.get('retry-after') || '1')
ParseRetryAfter(header) == IF header = <<>> THEN <<1>> ELSE header

\* variant: the delay is not capped
Delay_Uncapped(retryAfter, attempt) ==
    IF retryAfter = NaN THEN NaN
    ELSE <<retryAfter[1] * 1000 * 2^attempt>>

\* Math.min(retryAfter * 1000 * Math.pow(2, attempt), 30000)
Delay(retryAfter, attempt) ==
    IF retryAfter = NaN THEN NaN
    ELSE <<Min(retryAfter[1] * 1000 * 2^attempt, MaxDelay)>>

\* no call of requestWithRetry
NotCalled ==
    [pc |-> "idle", maxRetries |-> <<>>, attempt |-> 0, outcomes |-> <<>>,
     delays |-> <<>>, error |-> "none"]

\* the test of the for statement, and the throw after it
RetryLoop(r) ==
    IF r.attempt < MaxRetriesOf(r.maxRetries)
    THEN [r EXCEPT !.pc = "requesting"]
    ELSE [r EXCEPT !.pc = "threw", !.error = "Max retries exceeded"]

\* the try statement once request(...) has settled
AfterRequest(r, outcome) ==
    LET made == [r EXCEPT !.outcomes = Append(@, outcome)]
    IN CASE outcome.kind = "ok" -> [made EXCEPT !.pc = "returned"]
         [] outcome.kind = "http429" ->
              [made EXCEPT
                 !.pc = "waiting",
                 !.delays = Append(@, Delay(ParseRetryAfter(outcome.retryAfter),
                                            r.attempt))]
         [] OTHER -> [made EXCEPT !.pc = "threw", !.error = outcome.kind]

(***************************************************************************)
(* Initial states: the arguments of one call and the service's snapshot.   *)
(***************************************************************************)
NameFilter ==
    << [field |-> "name", value |-> <<"A">>, operator |-> "contains"] >>

Start ==
    /\ listPc = "idle"
    /\ loop = [f \in Feeds |-> NewLoop]
    /\ requests = [f \in Feeds |-> <<>>]
    /\ responses = [f \in Feeds |-> <<>>]
    /\ arrival = <<>>
    /\ allFiles = <<>>
    /\ deletedRequests = <<>>
    /\ deletedResponses = <<>>
    /\ result = <<>>
    /\ error = NoError

\* the snapshots of at most max records of pool, in any four streams
Ledgers(max, pool) ==
    UNION { { [owner |-> [permissionedFileDeployeds |-> od,
                          permissionedFileAccessMinteds |-> oa],
               minter |-> [permissionedFileDeployeds |-> md,
                           permissionedFileAccessMinteds |-> ma]] :
                od \in [1..n[1] -> pool], oa \in [1..n[2] -> pool],
                md \in [1..n[3] -> pool], ma \in [1..n[4] -> pool] } :
            n \in {m \in (0..max) \X (0..max) \X (0..max) \X (0..max) :
                     m[1] + m[2] + m[3] + m[4] <= max} }

NoPagination == [pageSize |-> <<>>, maxPages |-> <<>>]

\* any four streams of pool records, in one page each, served without
\* failure
InitReconcile ==
    /\ ledger \in Ledgers(MaxRecs, RecordPool)
    /\ faults = {}
    /\ options = [filterBy |-> <<>>, sortBy |-> <<>>,
                  pagination |-> NoPagination]

\* the same with a field predicate, on the snapshots one record smaller
InitFiltered ==
    /\ ledger \in Ledgers(MaxRecs - 1, RecordPool)
    /\ faults = {}
    /\ options = [filterBy |-> NameFilter, sortBy |-> <<>>,
                  pagination |-> NoPagination]

\* the same with records whose metadata is not JSON
InitCorrupt ==
    /\ ledger \in Ledgers(MaxRecs - 1, RecordPool \cup {BrokenRecord})
    /\ faults = {}
    /\ options = [filterBy |-> <<>>, sortBy |-> <<>>,
                  pagination |-> NoPagination]

\* records whose metadata is not JSON, with a field predicate
InitCorruptFiltered ==
    /\ ledger \in Ledgers(MaxRecs - 1, RecordPool \cup {BrokenTwin})
    /\ faults = {}
    /\ options = [filterBy |-> NameFilter, sortBy |-> <<>>,
                  pagination |-> NoPagination]

\* the same with records that differ in where their locator is
InitGate ==
    /\ ledger \in Ledgers(MaxRecs - 1, GatePool)
    /\ faults = {}
    /\ options = [filterBy |-> <<>>, sortBy |-> <<>>,
                  pagination |-> NoPagination]

\* the owner feed holds one stored file more than isDeleted takes in one
\* request; pagination is not given, or given as zeros
InitBatch ==
    /\ ledger =
         [owner |-> [permissionedFileDeployeds |->
                       [i \in 1..(BatchLimit + 1) |-> BatchRec(i)],
                     permissionedFileAccessMinteds |-> <<>>],
          minter |-> [permissionedFileDeployeds |-> <<>>,
                      permissionedFileAccessMinteds |-> <<>>]]
    /\ faults = {}
    /\ \E pagination \in {NoPagination,
                           [pageSize |-> <<0>>, maxPages |-> <<0>>]} :
         options = [filterBy |-> <<>>, sortBy |-> <<>>,
                    pagination |-> pagination]

\* pagination given with values that count as not given
InitDefaults ==
    /\ \E n1 \in 0..(MaxFeedLen - 1) :
         ledger =
           [owner |-> [permissionedFileDeployeds |->
                         [i \in 1..n1 |-> FeedRec("owner", i)],
                       permissionedFileAccessMinteds |-> <<>>],
            minter |-> [permissionedFileDeployeds |-> <<>>,
                        permissionedFileAccessMinteds |-> <<>>]]
    /\ faults = {}
    /\ \E ps \in {<<>>, <<0>>, NaN, <<2>>}, mp \in {<<>>, <<0>>, NaN, <<1>>} :
         options = [filterBy |-> <<>>, sortBy |-> <<>>,
                    pagination |-> [pageSize |-> ps, maxPages |-> mp]]

\* the feeds as the service serves them (deployed records by owner,
\* access-minted records by minter), small pages, any request may fail
InitPaging ==
    /\ \E n1, n2 \in 0..MaxFeedLen :
         ledger =
           [owner |-> [permissionedFileDeployeds |->
                         [i \in 1..n1 |-> FeedRec("owner", i)],
                       permissionedFileAccessMinteds |-> <<>>],
            minter |-> [permissionedFileDeployeds |-> <<>>,
                        permissionedFileAccessMinteds |->
                          [i \in 1..n2 |-> FeedRec("minter", i)]]]
    /\ faults = FaultKinds
    /\ \E ps \in {<<1>>, <<2>>}, mp \in {<<>>, <<1>>, <<2>>} :
         options = [filterBy |-> <<>>, sortBy |-> <<>>,
                    pagination |-> [pageSize |-> ps, maxPages |-> mp]]

\* the snapshots of at most max records of pool, deployed records by owner
\* and access-minted records by minter
ServedLedgers(max, pool) ==
    UNION { { [owner |-> [permissionedFileDeployeds |-> od,
                          permissionedFileAccessMinteds |-> <<>>],
               minter |-> [permissionedFileDeployeds |-> <<>>,
                           permissionedFileAccessMinteds |-> ma]] :
                od \in [1..n[1] -> pool], ma \in [1..n[2] -> pool] } :
            n \in {m \in (0..max) \X (0..max) : m[1] + m[2] <= max} }

\* records that carry the locator in several places
InitLocator ==
    /\ ledger \in ServedLedgers(MaxRecs - 1, LocatorPool)
    /\ faults = {}
    /\ options = [filterBy |-> <<>>, sortBy |-> <<>>,
                  pagination |-> NoPagination]

\* the sortBy arguments in use: none, by name ascending, by name descending
SortSpecs ==
    { <<>>,
      << [field |-> "name", direction |-> "asc"] >>,
      << [field |-> "name", direction |-> "desc"] >> }

\* the filterBy arguments in use; operator "undefined" is no operator
FilterSpecs ==
    { NameFilter,
      << [field |-> "name", value |-> <<"A", "b">>, operator |-> "equals"] >>,
      << [field |-> "name", value |-> <<"B">>, operator |-> "startsWith"] >>,
      << [field |-> "name", value |-> <<"B">>, operator |-> "endsWith"] >>,
      << [field |-> "name", value |-> <<"a">>, operator |-> "undefined"] >>,
      << [field |-> "name", value |-> <<>>, operator |-> "contains"] >>,
      << [field |-> "mimeType", value |-> <<>>, operator |-> "contains"] >>,
      << [field |-> "size", value |-> <<"a">>, operator |-> "equals"] >> }

\* named and unnamed files in two streams, with and without a sortBy
InitSorted ==
    /\ ledger \in ServedLedgers(MaxRecs, SortPool)
    /\ faults = {}
    /\ \E sortBy \in SortSpecs :
         options = [filterBy |-> <<>>, sortBy |-> sortBy,
                    pagination |-> NoPagination]

\* named and unnamed files, with a filterBy
InitFilterBy ==
    /\ ledger \in ServedLedgers(MaxRecs - 1, FilterPool)
    /\ faults = {}
    /\ \E filterBy \in FilterSpecs :
         options = [filterBy |-> filterBy, sortBy |-> <<>>,
                    pagination |-> NoPagination]

\* the end-to-end scenario: the owner feed holds deployed records A and B,
\* the minter feed an access-minted record B, pages of two
ScenarioA == Rec(Ida, MetaNameA, "0xc1", "0xo1")
ScenarioB == Rec(Idb, MetaNameB, "0xc2", "0xo1")

InitScenario ==
    /\ ledger = [owner |-> [permissionedFileDeployeds |->
                              <<ScenarioA, ScenarioB>>,
                            permissionedFileAccessMinteds |-> <<>>],
                 minter |-> [permissionedFileDeployeds |-> <<>>,
                             permissionedFileAccessMinteds |->
                               <<ScenarioB>>]]
    /\ faults = {}
    /\ options = [filterBy |-> <<>>, sortBy |-> <<>>,
                  pagination |-> [pageSize |-> <<2>>, maxPages |-> <<>>]]

InitProjector ==
    Start /\ parked = <<>> /\ retryCall = NotCalled
      /\ (InitSorted \/ InitFilterBy)

\* the locals of a call of list() that has not begun
FreshFrame(opts) ==
    [options |-> opts, listPc |-> "idle", loop |-> [f \in Feeds |-> NewLoop],
     requests |-> [f \in Feeds |-> <<>>],
     responses |-> [f \in Feeds |-> <<>>],
     arrival |-> <<>>, allFiles |-> <<>>, deletedRequests |-> <<>>,
     deletedResponses |-> <<>>, result |-> <<>>, error |-> NoError]

\* the records of a scenario with two calls: one identifier in two
\* spellings, named and unnamed
TwoPool ==
    { Rec(IdA, MetaStored, "0xc1", "0xo1"),
      Rec(Ida, MetaStoredNoName, "0xc2", "0xo2") }

\* two calls on one snapshot, one without and one with a field predicate
InitTwo ==
    /\ Start /\ retryCall = NotCalled
    /\ ledger \in Ledgers(MaxRecs - 1, TwoPool)
    /\ faults = {}
    /\ options = [filterBy |-> <<>>, sortBy |-> <<>>,
                  pagination |-> NoPagination]
    /\ parked = FreshFrame([filterBy |-> NameFilter, sortBy |-> <<>>,
                            pagination |-> NoPagination])

Init ==
    Start /\ parked = <<>> /\ retryCall = NotCalled
      /\ (InitReconcile \/ InitFiltered \/ InitCorrupt
          \/ InitCorruptFiltered \/ InitGate \/ InitPaging
          \/ InitScenario)

\* a call that pages through the feeds
InitPager ==
    Start /\ parked = <<>> /\ retryCall = NotCalled
      /\ (InitPaging \/ InitDefaults \/ InitBatch)

\* a call on records that differ in where their locator is
InitLocators ==
    Start /\ parked = <<>> /\ retryCall = NotCalled
      /\ (InitLocator \/ InitGate)

(***************************************************************************)
(* fetchAllPages (list.ts 72-120).                                         *)
(***************************************************************************)
PageRequest(l) == [skip |-> l.skip, first |-> pageSize]

\* variant: a loop ends when list() has rejected
LoopContinues_UnlessRejected(l) ==
    l.hasMore /\ PageBelow(l.page, maxPages) /\ listPc # "rejected"

\* the loop condition
LoopContinues(l) == l.hasMore /\ PageBelow(l.page, maxPages)

\* hasMore after a page
HasMore(pageData) == Len(pageData.permissionedFileDeployeds) = pageSize

\* variant: skip advances by the number of records the page returned
AddPage_SkipByRecords(l, pageData) ==
    [l EXCEPT
       !.allData =
          [permissionedFileDeployeds |->
             l.allData.permissionedFileDeployeds
               \o pageData.permissionedFileDeployeds,
           permissionedFileAccessMinteds |->
             l.allData.permissionedFileAccessMinteds
               \o pageData.permissionedFileAccessMinteds],
       !.hasMore = HasMore(pageData),
       !.skip = l.skip + Len(pageData.permissionedFileDeployeds)
                       + Len(pageData.permissionedFileAccessMinteds),
       !.page = l.page + 1]

\* the loop body after the page has arrived
AddPage(l, pageData) ==
    [l EXCEPT
       !.allData =
          [permissionedFileDeployeds |->
             l.allData.permissionedFileDeployeds
               \o pageData.permissionedFileDeployeds,
           permissionedFileAccessMinteds |->
             l.allData.permissionedFileAccessMinteds
               \o pageData.permissionedFileAccessMinteds],
       !.hasMore = HasMore(pageData),
       !.skip = l.skip + pageSize,
       !.page = l.page + 1]

\* variant: the results in the order the loops completed
PromiseAll_ByArrival(allData, order) ==
    <<allData[order[1]], allData[order[2]]>>

\* Promise.all: the results in the order of the promises given
PromiseAll(allData, order) == <<allData["owner"], allData["minter"]>>

(***************************************************************************)
(* list(): the call starts both loops, each sends its first request.       *)
(***************************************************************************)
\* variant: the call sends the first two requests of each feed at once
ListCall_Prefetches ==
    /\ listPc = "idle"
    /\ listPc' = "fetching"
    /\ loop' = [f \in Feeds |-> [loop[f] EXCEPT !.pc = "awaiting"]]
    /\ requests' = [f \in Feeds |->
                      <<PageRequest(loop[f]),
                        PageRequest([loop[f] EXCEPT !.skip = pageSize])>>]
    /\ UNCHANGED <<ledger, faults, options, responses, arrival, allFiles,
                   deletedRequests, deletedResponses, result, error, parked,
                   retryCall>>

ListCall ==
    /\ listPc = "idle"
    /\ listPc' = "fetching"
    /\ loop' = [f \in Feeds |->
                  IF LoopContinues(loop[f])
                  THEN [loop[f] EXCEPT !.pc = "awaiting"]
                  ELSE [loop[f] EXCEPT !.pc = "done"]]
    /\ requests' = [f \in Feeds |->
                      IF LoopContinues(loop[f])
                      THEN Append(requests[f], PageRequest(loop[f]))
                      ELSE requests[f]]
    /\ UNCHANGED <<ledger, faults, options, responses, arrival, allFiles,
                   deletedRequests, deletedResponses, result, error, parked,
                   retryCall>>

\* variant: the deletion check is requested for an empty table too
AfterJoin_AsksWhenEmpty(joined) ==
    LET m == MergeFiles(joined[1], joined[2], options.filterBy)
    IN IF m.threw
       THEN [listPc |-> "rejected", allFiles |-> <<>>, asked |-> <<>>,
             result |-> <<>>, error |-> [name |-> "SyntaxError", status |-> 0]]
       ELSE [listPc |-> "checking", allFiles |-> m.allFiles,
             asked |-> <<Keys(m.allFiles)>>, result |-> <<>>, error |-> NoError]

\* list() from the join on (list.ts 122-336): merge, then either ask the
\* service which files are deleted, or finish when there is nothing to ask
AfterJoin(joined) ==
    LET m == MergeFiles(joined[1], joined[2], options.filterBy)
    IN IF m.threw
       THEN [listPc |-> "rejected", allFiles |-> <<>>, asked |-> <<>>,
             result |-> <<>>, error |-> [name |-> "SyntaxError", status |-> 0]]
       ELSE IF Len(Keys(m.allFiles)) > 0
       THEN [listPc |-> "checking", allFiles |-> m.allFiles,
             asked |-> <<Keys(m.allFiles)>>, result |-> <<>>, error |-> NoError]
       ELSE [listPc |-> "returned", allFiles |-> m.allFiles, asked |-> <<>>,
             result |-> Projected(<<>>, options.sortBy), error |-> NoError]

\* a page response arrives for feed f: the loop takes it and goes on to its
\* next request, or ends; when both loops have ended, list() goes on
PageResponse(f) ==
    /\ loop[f].pc = "awaiting"
    /\ \E kind \in {"ok"} \cup faults :
       LET response == ServiceResponse(f, kind)
           fetched == FetchPage(response)
           l == AddPage(loop[f], fetched.pageData)
           more == LoopContinues(l)
           done == ~fetched.threw /\ ~more
           allData == [g \in Feeds |->
                         IF g = f THEN l.allData ELSE loop[g].allData]
           joins == done /\ loop[Other(f)].pc = "done" /\ listPc = "fetching"
           after == AfterJoin(PromiseAll(allData, Append(arrival, f)))
       IN /\ responses' = [responses EXCEPT ![f] = Append(@, response)]
          /\ loop' = [loop EXCEPT ![f] =
                        IF fetched.threw THEN [loop[f] EXCEPT !.pc = "failed"]
                        ELSE IF more THEN l
                        ELSE [l EXCEPT !.pc = "done"]]
          /\ requests' = [requests EXCEPT ![f] =
                            IF ~fetched.threw /\ more
                            THEN Append(@, PageRequest(l))
                            ELSE @]
          /\ listPc' = IF fetched.threw /\ listPc = "fetching" THEN "rejected"
                       ELSE IF joins THEN after.listPc
                       ELSE listPc
          /\ error' = IF fetched.threw /\ listPc = "fetching" THEN fetched.error
                      ELSE IF joins THEN after.error
                      ELSE error
          /\ allFiles' = IF joins THEN after.allFiles ELSE allFiles
          /\ deletedRequests' = IF joins THEN deletedRequests \o after.asked
                                ELSE deletedRequests
          /\ result' = IF joins THEN after.result ELSE result
          /\ arrival' = IF listPc' \notin {"fetching", "checking"} THEN <<>>
                        ELSE IF done THEN Append(arrival, f)
                        ELSE arrival
    /\ UNCHANGED <<ledger, faults, options, deletedResponses, parked,
                   retryCall>>

(***************************************************************************)
(* The deletion check (list.ts 302-363).                                   *)
(***************************************************************************)
\* what isDeleted may answer to a request for the identifiers ids: with
\* more than BatchLimit of them status 400 or another failure, else any
\* failure or any map from some of them to a flag
DeletedAnswers(ids) ==
    IF Len(ids) > BatchLimit
    THEN {HttpResponse(k, [hasDeletedFiles |-> FALSE, deletedFiles |-> << >>]) :
            k \in FaultKinds \cup {"http400"}}
    ELSE {HttpResponse(k, [hasDeletedFiles |-> FALSE, deletedFiles |-> << >>]) :
            k \in FaultKinds \cup {"ok"}}
         \cup
         {HttpResponse("ok", [hasDeletedFiles |-> TRUE, deletedFiles |-> m]) :
            m \in UNION {[d -> BOOLEAN] : d \in SUBSET Range(ids)}}

\* variant: the failure path returns an empty result
FinalFiles_FailureEmpties(files, checked) ==
    IF checked.threw
    THEN <<>>
    ELSE FilterDeleted(<<>>, files, checked.deletionStatuses)

\* finalFiles after the try statement
FinalFiles(files, checked) ==
    IF checked.threw
    THEN IncludeAllFiles(<<>>, files)
    ELSE FilterDeleted(<<>>, files, checked.deletionStatuses)

DeletedResponse ==
    /\ listPc = "checking"
    /\ \E response \in DeletedAnswers(deletedRequests[Len(deletedRequests)]) :
         /\ deletedResponses' = Append(deletedResponses, response)
         /\ result' = Projected(FinalFiles(allFiles, AreFilesDeleted(response)),
                                options.sortBy)
    /\ listPc' = "returned"
    /\ arrival' = <<>>
    /\ UNCHANGED <<ledger, faults, options, loop, requests, responses,
                   allFiles, deletedRequests, error, parked, retryCall>>

Next ==
    \/ ListCall
    \/ \E f \in Feeds : PageResponse(f)
    \/ DeletedResponse

Spec == Init /\ [][Next]_vars

\* list() called with a sortBy or a filterBy
SpecProjector == InitProjector /\ [][Next]_vars

\* list() paging through the feeds
SpecPager == InitPager /\ [][Next]_vars

\* list() on records with the locator in several places
SpecLocator == InitLocators /\ [][Next]_vars

(***************************************************************************)
(* Two calls of list().  Every name list() assigns is declared inside the  *)
(* function (list.ts 22-24, 72-90, 191-196, 303), so each call has its own; *)
(* the calls run on one thread and take turns at their network waits.      *)
(***************************************************************************)
\* the locals of the call that is running
Frame ==
    [options |-> options, listPc |-> listPc, loop |-> loop,
     requests |-> requests, responses |-> responses, arrival |-> arrival,
     allFiles |-> allFiles, deletedRequests |-> deletedRequests,
     deletedResponses |-> deletedResponses, result |-> result,
     error |-> error]

\* variant: the merged table is one object that the calls share
Resume_SharedTable(saved, live) == [saved EXCEPT !.allFiles = live.allFiles]

\* the locals a call finds when its turn comes: those it left
Resume(saved, live) == saved

\* the running call waits and the other call takes its turn
Switch ==
    /\ parked # <<>>
    /\ LET mine == Resume(parked, Frame)
       IN /\ options' = mine.options
          /\ listPc' = mine.listPc
          /\ loop' = mine.loop
          /\ requests' = mine.requests
          /\ responses' = mine.responses
          /\ arrival' = mine.arrival
          /\ allFiles' = mine.allFiles
          /\ deletedRequests' = mine.deletedRequests
          /\ deletedResponses' = mine.deletedResponses
          /\ result' = mine.result
          /\ error' = mine.error
    /\ parked' = Frame
    /\ UNCHANGED <<ledger, faults, retryCall>>

NextTwo ==
    \/ Next
    \/ Switch

SpecTwo == InitTwo /\ [][NextTwo]_vars

(***************************************************************************)
(* A call of requestWithRetry.  The variables of list() stay as they are.  *)
(***************************************************************************)
ListVars ==
    <<ledger, faults, options, listPc, loop, requests, responses, arrival,
      allFiles, deletedRequests, deletedResponses, result, error, parked>>

InitRetry ==
    /\ Start /\ parked = <<>>
    /\ ledger = [f \in Feeds |-> EmptyBody]
    /\ faults = {}
    /\ options = [filterBy |-> <<>>, sortBy |-> <<>>,
                  pagination |-> NoPagination]
    /\ \E given \in {<<>>} \cup {<<n>> : n \in 0..MaxRetriesGiven} :
         retryCall = [NotCalled EXCEPT !.maxRetries = given]

\* the call enters the for statement
RequestWithRetry ==
    /\ retryCall.pc = "idle"
    /\ retryCall' = RetryLoop(retryCall)
    /\ UNCHANGED ListVars

\* request(...) returns or throws
RequestSettles ==
    /\ retryCall.pc = "requesting"
    /\ \E outcome \in Outcomes : retryCall' = AfterRequest(retryCall, outcome)
    /\ UNCHANGED ListVars

\* the timer of the delay fires: continue, attempt++
TimerFires ==
    /\ retryCall.pc = "waiting"
    /\ retryCall' = RetryLoop([retryCall EXCEPT !.attempt = @ + 1])
    /\ UNCHANGED ListVars

NextRetry ==
    \/ RequestWithRetry
    \/ RequestSettles
    \/ TimerFires

SpecRetry == InitRetry /\ [][NextRetry]_vars

(***************************************************************************)
(* Properties.                                                             *)
(***************************************************************************)
\* list() has merged: the table is the one the deletion check and the
\* result are made from
Merged == listPc \in {"checking", "returned"}

\* what the loops handed to the merge
Fetched(f) == loop[f].allData

\* the four streams in the order of the merge
FetchedStreams ==
    Fetched("owner").permissionedFileDeployeds
      \o Fetched("owner").permissionedFileAccessMinteds
      \o Fetched("minter").permissionedFileDeployeds
      \o Fetched("minter").permissionedFileAccessMinteds

\* the access-minted records fetched from either feed
FetchedAccessMinteds ==
    Range(Fetched("owner").permissionedFileAccessMinteds)
      \cup Range(Fetched("minter").permissionedFileAccessMinteds)

PassesGate(file) ==
    CanParse(file.fileMetadata)
      /\ HasRequiredMetadata(JsonParse(file.fileMetadata))

\* C1: the merged table holds at most one entry per lowercased identifier,
\* and every key is the lowercased dataIdentifier of its entry
C1_OneEntryPerIdentifier ==
    Merged =>
      \A i, j \in 1..Len(allFiles) :
        /\ allFiles[i].key = ToLowerCase(allFiles[i].value.dataIdentifier)
        /\ ToLowerCase(allFiles[i].key) = ToLowerCase(allFiles[j].key) => i = j

\* the streams held the same identifier in two spellings, and one entry
C1_Witness ==
    /\ Merged
    /\ \E i, j \in 1..Len(FetchedStreams) :
         /\ FetchedStreams[i].fileIdentifier = IdA
         /\ FetchedStreams[j].fileIdentifier = Ida
         /\ PassesGate(FetchedStreams[i]) /\ PassesGate(FetchedStreams[j])
    /\ Len(allFiles) = 1

\* C2: without filterBy, an entry's contract address, owner and metadata
\* are those of the first record of its identifier that passes the gate, in
\* the order owner-deployed, owner-access-minted, minter-deployed,
\* minter-access-minted
C2_FirstPassingRecordWins ==
    (Merged /\ options.filterBy = <<>>) =>
      LET streams == FetchedStreams
      IN \A e \in Range(allFiles) :
           LET hits == {i \in 1..Len(streams) :
                          /\ ToLowerCase(streams[i].fileIdentifier) = e.key
                          /\ PassesGate(streams[i])}
               first == CHOOSE i \in hits : \A j \in hits : i <= j
           IN /\ hits # {}
              /\ e.value.dataContractAddress = streams[first].fileContractAddress
              /\ e.value.owner = streams[first].fileOwner
              /\ e.value.dataMetadata =
                   ExtractMetadata(JsonParse(streams[first].fileMetadata))

\* a record that fails the gate, then two that pass it with different
\* fields, all of one identifier: the entry is the second record's
C2_Witness ==
    /\ Merged /\ options.filterBy = <<>>
    /\ Fetched("owner").permissionedFileDeployeds =
         <<Rec(Ida, MetaPointer, "0xc3", "0xo1")>>
    /\ Fetched("owner").permissionedFileAccessMinteds =
         <<Rec(Ida, MetaStoredNoName, "0xc2", "0xo2")>>
    /\ Fetched("minter").permissionedFileAccessMinteds =
         <<Rec(IdA, MetaStored, "0xc1", "0xo1")>>
    /\ Len(allFiles) = 1
    /\ allFiles[1].value.dataContractAddress = "0xc2"

\* C3: an entry is marked access-minted exactly when its identifier is
\* among the access-minted records fetched from either feed
C3_AccessMintedIffInEitherFeed ==
    Merged =>
      LET minted == {ToLowerCase(file.fileIdentifier) :
                       file \in FetchedAccessMinteds}
      IN \A e \in Range(allFiles) \cup Range(result) :
           e.value.isAccessMinted <=> e.key \in minted

\* an entry made from an owner-deployed record is marked because of a
\* minter access-minted record that itself fails the gate
C3_Witness ==
    /\ listPc = "returned"
    /\ Fetched("owner").permissionedFileDeployeds =
         <<Rec(IdA, MetaStored, "0xc1", "0xo1")>>
    /\ Fetched("owner").permissionedFileAccessMinteds = <<>>
    /\ Fetched("minter").permissionedFileAccessMinteds =
         <<Rec(Ida, MetaPointer, "0xc3", "0xo1")>>
    /\ Len(result) = 1
    /\ result[1].value.isAccessMinted
    /\ result[1].value.dataContractAddress = "0xc1"

\* the number of pages a loop fetches from a feed that answers every request
PagesOf(f) ==
    LET deployeds == ledger[f].permissionedFileDeployeds
    IN CHOOSE n \in 1..(Len(deployeds) + 1) :
         /\ Len(PageOf(deployeds, (n - 1) * pageSize, pageSize) ) # pageSize
            \/ ~PageBelow(n, maxPages)
         /\ \A k \in 1..(n - 1) :
              /\ Len(PageOf(deployeds, (k - 1) * pageSize, pageSize)) = pageSize
              /\ PageBelow(k, maxPages)

\* what a loop accumulates from such a feed
DataOf(f) ==
    [permissionedFileDeployeds |->
       PageOf(ledger[f].permissionedFileDeployeds, 0, PagesOf(f) * pageSize),
     permissionedFileAccessMinteds |->
       PageOf(ledger[f].permissionedFileAccessMinteds, 0, PagesOf(f) * pageSize)]

\* C4: whichever loop completes first, the merged table and the result
\* list() returns are those that the page responses determine
C4_ResultIndependentOfArrival ==
    /\ Merged =>
         allFiles = MergeFiles(DataOf("owner"), DataOf("minter"),
                               options.filterBy).allFiles
    /\ listPc = "returned" =>
         result = IF allFiles = <<>> THEN <<>>
                  ELSE Projected(
                         FinalFiles(allFiles,
                           AreFilesDeleted(deletedResponses[Len(deletedResponses)])),
                         options.sortBy)

\* the minter loop completed first, the feeds hold one identifier with
\* different contract addresses, and the entry is the owner feed's
C4_Witness ==
    /\ listPc = "checking"
    /\ arrival = <<"minter", "owner">>
    /\ \E a \in Range(Fetched("owner").permissionedFileDeployeds),
          b \in Range(Fetched("minter").permissionedFileAccessMinteds) :
         /\ ToLowerCase(a.fileIdentifier) = ToLowerCase(b.fileIdentifier)
         /\ a.fileContractAddress # b.fileContractAddress
         /\ PassesGate(a) /\ PassesGate(b)
         /\ Len(allFiles) = 1
         /\ allFiles[1].value.dataContractAddress = a.fileContractAddress

\* a response that is a network error or has a status outside 2xx other
\* than 429
NonRetryable(response) ==
    response.failed \/ (response.status \notin 200..299 /\ response.status # 429)

\* C5: once a page request of either feed has failed with a non-retryable
\* error, list() has rejected and there is no result
C5_FetchErrorRejects ==
    (\E f \in Feeds : \E k \in 1..Len(responses[f]) :
        NonRetryable(responses[f][k]))
      => (listPc = "rejected" /\ result = <<>> /\ error # NoError
          /\ deletedRequests = <<>>)

\* the owner feed failed on its second page, after the minter loop had
\* completed
C5_Witness ==
    /\ Len(responses["owner"]) = 2
    /\ responses["owner"][1].status = 200
    /\ Len(responses["owner"][1].body.permissionedFileDeployeds) = 2
    /\ responses["owner"][2].status = 500
    /\ loop["minter"].pc = "done"
    /\ Len(loop["minter"].allData.permissionedFileAccessMinteds) > 0
    /\ listPc = "rejected"

DeletionCheckFailed ==
    /\ deletedResponses # <<>>
    /\ LET r == deletedResponses[Len(deletedResponses)]
       IN r.failed \/ r.status \notin 200..299 \/ ~r.json

\* C7: when the deletion check fails, list() returns every merged entry
\* unchanged, in merge order when no sort is asked
C7_FailedCheckKeepsAll ==
    DeletionCheckFailed =>
      /\ listPc = "returned" /\ error = NoError
      /\ Range(result) = Range(allFiles) /\ Len(result) = Len(allFiles)
      /\ options.sortBy = <<>> => result = allFiles

\* the check was answered 429 and two entries are returned
C7_Witness ==
    /\ DeletionCheckFailed
    /\ deletedResponses[1].status = 429
    /\ listPc = "returned"
    /\ Len(result) = 2

\* the deletion check succeeded
DeletionCheckSucceeded ==
    /\ deletedResponses # <<>>
    /\ LET r == deletedResponses[Len(deletedResponses)]
       IN ~r.failed /\ r.status \in 200..299 /\ r.json

\* the map a successful deletion check returned
DeletionMap ==
    LET r == deletedResponses[Len(deletedResponses)]
    IN IF r.body.hasDeletedFiles THEN r.body.deletedFiles ELSE << >>

FlaggedDeleted(m, e) == e.key \in DOMAIN m /\ m[e.key] = TRUE

\* C8: when the deletion check succeeds, the result holds exactly the merged
\* entries that the map does not flag as deleted, unchanged
C8_SurvivorsAreUnflagged ==
    DeletionCheckSucceeded =>
      LET m == DeletionMap
      IN /\ listPc = "returned"
         /\ Range(result) = {e \in Range(allFiles) : ~FlaggedDeleted(m, e)}
         /\ options.sortBy = <<>> =>
              result = SelectSeq(allFiles, LAMBDA e : ~FlaggedDeleted(m, e))

\* of two merged entries the map flags one and does not mention the other
C8_Witness ==
    /\ DeletionCheckSucceeded
    /\ Len(allFiles) = 2
    /\ DeletionMap = (Ida :> TRUE)
    /\ Len(result) = 1
    /\ result[1].key = Idb

\* the feeds are as the service serves them: deployed records by owner,
\* access-minted records by minter
AsServed ==
    /\ ledger["owner"].permissionedFileAccessMinteds = <<>>
    /\ ledger["minter"].permissionedFileDeployeds = <<>>

Succeeded(response) ==
    ~response.failed /\ response.status \in 200..299 /\ response.json

\* the records of a feed's primary kind in a page
PrimaryCount(f, response) ==
    IF f = "owner" THEN Len(response.body.permissionedFileDeployeds)
    ELSE Len(response.body.permissionedFileAccessMinteds)

\* C9: page k+1 of a feed is requested exactly when page k succeeded, held
\* pageSize records of the feed's primary kind, and k is below maxPages
C9_NextPageIffFullPage ==
    AsServed =>
      \A f \in Feeds : \A k \in 1..Len(responses[f]) :
        (Len(requests[f]) > k)
          <=> /\ Succeeded(responses[f][k])
              /\ PrimaryCount(f, responses[f][k]) = pageSize
              /\ PageBelow(k, maxPages)

\* C10: with no page bound and every request answered, each loop holds the
\* feed's whole record sequence in ledger order
C10_WholeFeedFetched ==
    (/\ AsServed
     /\ options.pagination.maxPages = <<>>
     /\ \A f \in Feeds :
          /\ loop[f].pc = "done"
          /\ \A k \in 1..Len(responses[f]) : Succeeded(responses[f][k]))
      => /\ Fetched("owner").permissionedFileDeployeds =
              ledger["owner"].permissionedFileDeployeds
         /\ Fetched("minter").permissionedFileAccessMinteds =
              ledger["minter"].permissionedFileAccessMinteds

\* both loops have completed and list() has gone on from the join
Joined == \A f \in Feeds : loop[f].pc = "done"

\* the locator the normalizer extracts from a record: nested under either
\* casing, else top-level under either casing
ExtractedLocator(file) ==
    ExtractMetadata(JsonParse(file.fileMetadata)).pieceCid

\* the locator under filecoinStorageInfo, under either casing
NestedLocator(file) ==
    LET fileMetadata == JsonParse(file.fileMetadata)
    IN OrElse(fileMetadata.fsiPieceCID, fileMetadata.fsiPieceCid)

\* the metadata carries encryptedData.ipfsHash
PointerMarker(file) == Truthy(JsonParse(file.fileMetadata).ipfsHash)

\* the fetched records all parse and no filterBy is given
GateDecides ==
    /\ Joined /\ options.filterBy = <<>>
    /\ \A i \in 1..Len(FetchedStreams) :
         CanParse(FetchedStreams[i].fileMetadata)

\* C11 as stated: an identifier has an entry exactly when one of its records
\* has an extracted locator (nested or top-level) and no pointer marker,
\* and list() raises no error
C11_AcceptedIffExtractedLocator ==
    GateDecides =>
      /\ Merged
      /\ \A i \in 1..Len(FetchedStreams) :
           LET file == FetchedStreams[i]
           IN (Truthy(ExtractedLocator(file)) /\ ~PointerMarker(file))
                => HasKey(allFiles, ToLowerCase(file.fileIdentifier))
      /\ \A e \in Range(allFiles) :
           \E i \in 1..Len(FetchedStreams) :
             LET file == FetchedStreams[i]
             IN /\ ToLowerCase(file.fileIdentifier) = e.key
                /\ Truthy(ExtractedLocator(file)) /\ ~PointerMarker(file)

\* C11 as amended: an identifier has an entry exactly when one of its
\* records has a locator under filecoinStorageInfo (either casing) and no
\* pointer marker; a top-level locator alone does not pass; a record that
\* fails is dropped and list() raises no error
C11_AcceptedIffNestedLocator ==
    GateDecides =>
      /\ Merged /\ error = NoError
      /\ \A i \in 1..Len(FetchedStreams) :
           LET file == FetchedStreams[i]
           IN (Truthy(NestedLocator(file)) /\ ~PointerMarker(file))
                => HasKey(allFiles, ToLowerCase(file.fileIdentifier))
      /\ \A e \in Range(allFiles) :
           /\ Truthy(e.value.cid)
           /\ \E i \in 1..Len(FetchedStreams) :
                LET file == FetchedStreams[i]
                IN /\ ToLowerCase(file.fileIdentifier) = e.key
                   /\ NestedLocator(file) = e.value.cid
                   /\ ~PointerMarker(file)

\* a record with a top-level locator only and a record with a nested one
\* were fetched; the table holds the second alone
C11_Witness ==
    /\ GateDecides /\ listPc = "returned"
    /\ Fetched("owner").permissionedFileDeployeds =
         <<Rec(Ida, MetaTopLevel, "0xc2", "0xo2")>>
    /\ Fetched("minter").permissionedFileAccessMinteds =
         <<Rec(Idb, MetaStoredNoName, "0xc3", "0xo1")>>
    /\ Len(allFiles) = 1
    /\ allFiles[1].key = Idb

\* the record parses, passes the gate and satisfies the field predicate:
\* a merge loop that reaches it with its identifier free inserts it
PassesAll(file) ==
    /\ PassesGate(file)
    /\ MatchesFilter(
         FileData(file, JsonParse(file.fileMetadata),
                  ToLowerCase(file.fileIdentifier), FALSE),
         options.filterBy)

\* C12 as stated: when any fetched record has metadata that does not parse,
\* list() fails
C12_UnparseableAlwaysFails ==
    (Joined /\ \E i \in 1..Len(FetchedStreams) :
                 ~CanParse(FetchedStreams[i].fileMetadata))
      => listPc = "rejected"

\* C12 as amended: list() fails with the parse error exactly when some
\* fetched record does not parse and no earlier record of its identifier,
\* in merge order, has been inserted; an unparseable record whose
\* identifier already has an entry is skipped without error
C12_UnparseableFailsUnlessShadowed ==
    Joined =>
      LET streams == FetchedStreams
          shadowed(i) ==
            \E j \in 1..(i - 1) :
              /\ ToLowerCase(streams[j].fileIdentifier)
                   = ToLowerCase(streams[i].fileIdentifier)
              /\ PassesAll(streams[j])
      IN (listPc = "rejected" /\ error.name = "SyntaxError")
           <=> \E i \in 1..Len(streams) :
                 ~CanParse(streams[i].fileMetadata) /\ ~shadowed(i)

\* a record that parses and a later record of another identifier that does
\* not: list() has failed
C12_Witness ==
    /\ Joined /\ listPc = "rejected" /\ error.name = "SyntaxError"
    /\ Fetched("owner").permissionedFileDeployeds =
         <<Rec(Ida, MetaStoredNoName, "0xc2", "0xo2")>>
    /\ Fetched("minter").permissionedFileAccessMinteds = <<BrokenRecord>>

\* the value of the sort field of an entry of the result
SortValue(e) == FieldValue(e.value, options.sortBy[1].field)

Descending == options.sortBy[1].direction = "desc"

\* C13 as stated: in the sorted result an entry without the sort field comes
\* after every entry with it when ascending, before when descending
C13_AbsentLastAscending ==
    (listPc = "returned" /\ options.sortBy # <<>>) =>
      \A i, j \in 1..Len(result) :
        (SortValue(result[i]) = Undef /\ SortValue(result[j]) # Undef)
          => IF Descending THEN i < j ELSE j < i

\* C13 as amended: in the sorted result an entry without the sort field
\* comes before every entry with it when ascending, after when descending
C13_AbsentFirstAscending ==
    (listPc = "returned" /\ options.sortBy # <<>>) =>
      \A i, j \in 1..Len(result) :
        (SortValue(result[i]) = Undef /\ SortValue(result[j]) # Undef)
          => IF Descending THEN j < i ELSE i < j

\* entries named b, (no name), a in merge order, sorted by name ascending:
\* the result is (no name), a, b
C13_Witness ==
    /\ listPc = "returned"
    /\ options.sortBy = << [field |-> "name", direction |-> "asc"] >>
    /\ Keys(allFiles) = <<Ida, Idb, Idc>>
    /\ Keys(result) = <<Idb, Idc, Ida>>

\* the lowercased text of the entry's field stands in the relation that the
\* operator names to the lowercased text of the value
Satisfies(e, f) ==
    LET have == ToLowerCase(FieldValue(e.value, f.field))
        want == ToLowerCase(f.value)
    IN IF f.operator = "contains"
       THEN \E i \in 0..(Len(have) - Len(want)) :
              \A k \in 1..Len(want) : have[i + k] = want[k]
       ELSE IF f.operator = "startsWith"
       THEN Len(want) <= Len(have)
              /\ \A k \in 1..Len(want) : have[k] = want[k]
       ELSE IF f.operator = "endsWith"
       THEN Len(want) <= Len(have)
              /\ \A k \in 1..Len(want) :
                   have[Len(have) - Len(want) + k] = want[k]
       ELSE have = want

Pos(obj, k) == CHOOSE i \in 1..Len(obj) : obj[i].key = k

\* the place, in the four streams in merge order, of the first record of an
\* identifier that a merge loop inserts
FirstInserted(k) ==
    LET hits == {i \in 1..Len(FetchedStreams) :
                   /\ ToLowerCase(FetchedStreams[i].fileIdentifier) = k
                   /\ PassesAll(FetchedStreams[i])}
    IN CHOOSE i \in hits : \A j \in hits : i <= j

\* C16: the merged table is in insertion order (stream precedence, then
\* feed order); without sortBy the result keeps that order; with sortBy,
\* present values are in collation order, reversed when descending, and
\* entries with equal keys keep their merge order
C16_SortedStable ==
    listPc = "returned" =>
      /\ \A i, j \in 1..Len(allFiles) :
           i < j => FirstInserted(allFiles[i].key) < FirstInserted(allFiles[j].key)
      /\ \A i, j \in 1..Len(result) :
           i < j =>
             LET before == Pos(allFiles, result[i].key)
                             < Pos(allFiles, result[j].key)
             IN IF options.sortBy = <<>> THEN before
                ELSE LET a == SortValue(result[i])
                         b == SortValue(result[j])
                     IN /\ (a # Undef /\ b # Undef) =>
                             IF Descending THEN LocaleCompare(a, b) >= 0
                             ELSE LocaleCompare(a, b) <= 0
                        /\ a = b => before

\* files named b and a from the owner feed and a second file named a from
\* the minter feed, sorted by name ascending: the two files named a come
\* first, the owner feed's before the minter feed's
C16_Witness ==
    /\ listPc = "returned"
    /\ options.sortBy = << [field |-> "name", direction |-> "asc"] >>
    /\ Fetched("owner").permissionedFileDeployeds =
         <<Rec(Ida, MetaNameB, "0xc1", "0xo1"),
           Rec(Idd, MetaNameA, "0xc3", "0xo1")>>
    /\ Fetched("minter").permissionedFileAccessMinteds =
         <<Rec(Idc, MetaNameA, "0xc1", "0xo1")>>
    /\ Keys(result) = <<Idd, Idc, Ida>>

\* the table list() merges from the same fetched records without filterBy
Unfiltered ==
    MergeFiles(Fetched("owner"), Fetched("minter"), <<>>).allFiles

\* C15: the result of list() with a filterBy is made of exactly the entries
\* of the unfiltered table that satisfy the predicate, with the same
\* fields, less those the deletion check flags
C15_FilterOverCanonicalEntries ==
    (listPc = "returned" /\ options.filterBy # <<>>) =>
      LET selected ==
            SelectSeq(Unfiltered,
                      LAMBDA e : MatchesFilter(e.value, options.filterBy))
      IN IF deletedResponses = <<>>
         THEN selected = <<>> /\ result = <<>>
         ELSE result =
                Projected(
                  FinalFiles(selected,
                    AreFilesDeleted(deletedResponses[Len(deletedResponses)])),
                  options.sortBy)

\* list() has returned in the end-to-end scenario, the deletion check
\* having reported A and B not deleted
ScenarioReturned ==
    /\ ledger["owner"].permissionedFileDeployeds = <<ScenarioA, ScenarioB>>
    /\ ledger["minter"].permissionedFileAccessMinteds = <<ScenarioB>>
    /\ options.pagination.pageSize = <<2>>
    /\ listPc = "returned"
    /\ DeletionCheckSucceeded
    /\ DeletionMap = (Ida :> FALSE) @@ (Idb :> FALSE)

\* C17: in the end-to-end scenario the owner loop requests page 2, gets no
\* record and stops, and list() returns A not access-minted and B
\* access-minted, and nothing else
C17_EndToEnd ==
    ScenarioReturned =>
      /\ requests["owner"] = <<[skip |-> 0, first |-> 2],
                               [skip |-> 2, first |-> 2]>>
      /\ responses["owner"][1].body.permissionedFileDeployeds =
           <<ScenarioA, ScenarioB>>
      /\ responses["owner"][2].body.permissionedFileDeployeds = <<>>
      /\ Keys(result) = <<Ida, Idb>>
      /\ ~result[1].value.isAccessMinted
      /\ result[2].value.isAccessMinted

\* the scenario has run to its end with both entries returned
C17_Witness ==
    /\ ScenarioReturned
    /\ Len(responses["owner"]) = 2
    /\ Len(result) = 2

\* C19: a record that passes the gate (and the field predicate, if one is
\* given) while every earlier record of its identifier, in merge order,
\* fails the gate, is the entry of the identifier
C19_GateFailureNeverReserves ==
    Merged =>
      LET streams == FetchedStreams
      IN \A i \in 1..Len(streams) :
           (/\ PassesAll(streams[i])
            /\ \A j \in 1..(i - 1) :
                 ToLowerCase(streams[j].fileIdentifier)
                     = ToLowerCase(streams[i].fileIdentifier)
                   => ~PassesGate(streams[j]))
             => \E e \in Range(allFiles) :
                  /\ e.key = ToLowerCase(streams[i].fileIdentifier)
                  /\ e.value.dataContractAddress =
                       streams[i].fileContractAddress
                  /\ e.value.owner = streams[i].fileOwner
                  /\ e.value.dataMetadata.userMetaData =
                       JsonStringify(JsonParse(streams[i].fileMetadata))

\* a record with the encrypted pointer, then in a later stream a stored
\* record of the same identifier: the entry is the later record's
C19_Witness ==
    /\ Merged
    /\ Fetched("owner").permissionedFileDeployeds =
         <<Rec(Ida, MetaPointer, "0xc3", "0xo1")>>
    /\ Fetched("owner").permissionedFileAccessMinteds = <<>>
    /\ Fetched("minter").permissionedFileAccessMinteds =
         <<Rec(IdA, MetaStored, "0xc1", "0xo1")>>
    /\ Keys(allFiles) = <<Ida>>
    /\ allFiles[1].value.dataContractAddress = "0xc1"

\* C20: the deletion check is requested at most once, only when both loops
\* have completed with every page fetched successfully and the merge has
\* finished, for all the identifiers of the merged table in one call, and
\* not at all when the table is empty
C20_SingleExistenceCheck ==
    /\ Len(deletedRequests) <= 1
    /\ Len(deletedResponses) <= Len(deletedRequests)
    /\ deletedRequests # <<>> =>
         /\ Joined /\ Merged
         /\ \A f \in Feeds : \A k \in 1..Len(responses[f]) :
              Succeeded(responses[f][k])
         /\ allFiles # <<>>
         /\ deletedRequests[1] = Keys(allFiles)
    /\ (Merged /\ allFiles = <<>>) =>
         (deletedRequests = <<>> /\ listPc = "returned")
    /\ listPc \in {"idle", "fetching", "rejected"} => deletedRequests = <<>>

\* both loops have completed, the owner loop after two pages, and one
\* request for the two merged identifiers has been sent
C20_Witness ==
    /\ listPc = "checking"
    /\ Len(responses["owner"]) = 2
    /\ Len(allFiles) = 2
    /\ deletedRequests = <<Keys(allFiles)>>
    /\ deletedResponses = <<>>

\* what a call with the locals fr returns when it runs alone on the
\* snapshot and its deletion check is answered as it was
AloneTable(fr) ==
    MergeFiles(ledger["owner"], ledger["minter"], fr.options.filterBy).allFiles

AloneResult(fr) ==
    IF AloneTable(fr) = <<>> THEN <<>>
    ELSE Projected(
           FinalFiles(AloneTable(fr),
             AreFilesDeleted(fr.deletedResponses[Len(fr.deletedResponses)])),
           fr.options.sortBy)

\* C18: of two calls that take turns at every network wait, each fetches,
\* merges, asks and returns what it does when run alone
C18_InvocationsIndependent ==
    parked # <<>> =>
      \A fr \in {Frame, parked} :
        /\ fr.listPc # "rejected"
        /\ \A f \in Feeds :
             fr.loop[f].allData =
               IF fr.loop[f].pc = "done" THEN ledger[f] ELSE EmptyBody
        /\ fr.listPc \in {"checking", "returned"} =>
             /\ fr.allFiles = AloneTable(fr)
             /\ fr.deletedRequests =
                  IF fr.allFiles = <<>> THEN <<>> ELSE <<Keys(fr.allFiles)>>
        /\ fr.listPc = "returned" => fr.result = AloneResult(fr)

\* one call has returned its entry while the other, begun before, waits for
\* its deletion check with a different table
C18_Witness ==
    /\ parked # <<>>
    /\ listPc = "returned" /\ Len(result) = 1
    /\ parked.listPc = "checking"
    /\ Len(parked.allFiles) = 1
    /\ parked.allFiles # allFiles

\* the records of one collection in the first n responses of a feed, as
\* fetchPage hands them to the loop
RECURSIVE PagesTaken(_, _, _)
PagesTaken(f, n, collection) ==
    IF n = 0 THEN <<>>
    ELSE PagesTaken(f, n - 1, collection)
           \o FetchPage(responses[f][n]).pageData[collection]

\* the requests of a feed that have no response yet
Outstanding(f) == Len(requests[f]) - Len(responses[f])

\* C21: a feed has at most one page request without a response, it has one
\* exactly while its loop waits, so request k+1 is sent only when response k
\* is in; and each loop's accumulator holds the pages of its own feed only
C21_OnePageOutstandingPerFeed ==
    \A f \in Feeds :
      /\ Outstanding(f) \in {0, 1}
      /\ Outstanding(f) = 1 <=> loop[f].pc = "awaiting"
      /\ \A collection \in DOMAIN EmptyBody :
           loop[f].allData[collection]
             = PagesTaken(f, Len(responses[f]), collection)

\* the owner loop waits for its second page while the minter loop waits
\* for its first
C21_Witness ==
    /\ loop["owner"].pc = "awaiting" /\ loop["minter"].pc = "awaiting"
    /\ Len(requests["owner"]) = 2 /\ Len(responses["owner"]) = 1
    /\ Len(requests["minter"]) = 1 /\ responses["minter"] = <<>>
    /\ Len(loop["owner"].allData.permissionedFileDeployeds) > 0

\* C22: the k-th request of a feed carries skip = (k-1) * pageSize and
\* first = pageSize, and after every page taken, short or full, the loop's
\* skip is pageSize times the pages taken
C22_SkipAdvancesByPageSize ==
    \A f \in Feeds :
      /\ \A k \in 1..Len(requests[f]) :
           requests[f][k] = [skip |-> (k - 1) * pageSize, first |-> pageSize]
      /\ loop[f].skip = loop[f].page * pageSize
      /\ loop[f].page =
           Cardinality({k \in 1..Len(responses[f]) :
                          ~FetchPage(responses[f][k]).threw})

\* the owner loop has sent its third request, for pages of one record
C22_Witness ==
    /\ pageSize = 1
    /\ Len(requests["owner"]) = 3
    /\ requests["owner"][3].skip = 2
    /\ loop["minter"].pc = "done" /\ loop["minter"].skip = 1
    /\ loop["minter"].allData.permissionedFileAccessMinteds = <<>>

\* what the deletion check of this call gave the filter
Checked == AreFilesDeleted(deletedResponses[Len(deletedResponses)])

\* C23: the tombstone filter applied to its own output with the same
\* deletion map returns that output; when every identifier is flagged the
\* output is empty both times, and when the check failed it is the merged
\* table both times
C23_TombstoneFilterIdempotent ==
    (deletedResponses # <<>> /\ options.sortBy = <<>>) =>
      LET once == FinalFiles(allFiles, Checked)
          twice == FinalFiles(once, Checked)
      IN /\ result = once
         /\ twice = once
         /\ (~Checked.threw
               /\ \A e \in Range(allFiles) :
                    FlaggedDeleted(Checked.deletionStatuses, e))
              => (once = <<>> /\ twice = <<>>)
         /\ Checked.threw => (once = allFiles /\ twice = allFiles)

\* of three merged entries the map flags the second, and the two others
\* are returned
C23_Witness ==
    /\ listPc = "returned" /\ DeletionCheckSucceeded
    /\ Len(allFiles) = 3
    /\ FlaggedDeleted(DeletionMap, allFiles[2])
    /\ result = <<allFiles[1], allFiles[3]>>
    /\ FinalFiles(result, Checked) = result

\* the four places of the locator in a metadata object, in the order the
\* normalizer reads them
LocatorPlaces(fileMetadata) ==
    <<fileMetadata.fsiPieceCID, fileMetadata.fsiPieceCid,
      fileMetadata.pieceCID, fileMetadata.pieceCid>>

\* v is the first non-empty value of places, or undefined when all four are
\* absent
FirstNonEmpty(places, v) ==
    /\ (\E i \in 1..Len(places) : Truthy(places[i]))
         => \E i \in 1..Len(places) :
              /\ Truthy(places[i]) /\ v = places[i]
              /\ \A j \in 1..(i - 1) : ~Truthy(places[j])
    /\ (\A i \in 1..Len(places) : places[i] = Undef) => v = Undef

\* C24: dataMetadata.pieceCid of an entry is the first non-empty value among
\* nested pieceCID, nested pieceCid, top-level pieceCID and top-level
\* pieceCid of the metadata it was made from, and the normalizer gives
\* every fetched metadata object that value, undefined when none is present
C24_LocatorFirstNonEmpty ==
    Joined =>
      /\ \A e \in Range(allFiles) \cup Range(result) :
           FirstNonEmpty(
             LocatorPlaces(JsonParse(e.value.dataMetadata.userMetaData)),
             e.value.dataMetadata.pieceCid)
      /\ \A i \in 1..Len(FetchedStreams) :
           CanParse(FetchedStreams[i].fileMetadata) =>
             FirstNonEmpty(
               LocatorPlaces(JsonParse(FetchedStreams[i].fileMetadata)),
               ExtractedLocator(FetchedStreams[i]))

\* an entry made from metadata with the nested pieceCid and another value
\* at the top level is returned with the nested value
C24_Witness ==
    /\ listPc = "returned"
    /\ Len(result) = 1
    /\ result[1].value.dataMetadata.userMetaData = MetaNestedAndTop
    /\ result[1].value.dataMetadata.pieceCid = Cid2
    /\ JsonParse(MetaNestedAndTop).pieceCID = Cid1

\* C28: every returned entry has a non-empty cid that is the nested locator
\* of its metadata, dataMetadata.pieceCid equal to it and no encrypted
\* pointer; no entry is made from a record without a nested locator
C28_EntriesCarryNestedLocator ==
    \A e \in Range(allFiles) \cup Range(result) :
      LET fileMetadata == JsonParse(e.value.dataMetadata.userMetaData)
      IN /\ Truthy(e.value.cid)
         /\ e.value.cid
              = OrElse(fileMetadata.fsiPieceCID, fileMetadata.fsiPieceCid)
         /\ e.value.dataMetadata.pieceCid = e.value.cid
         /\ ~Truthy(fileMetadata.ipfsHash)
         /\ \E i \in 1..Len(FetchedStreams) :
              /\ CanParse(FetchedStreams[i].fileMetadata)
              /\ JsonStringify(JsonParse(FetchedStreams[i].fileMetadata))
                   = e.value.dataMetadata.userMetaData
              /\ ToLowerCase(FetchedStreams[i].fileIdentifier) = e.key
              /\ Truthy(NestedLocator(FetchedStreams[i]))

\* the feeds held a record with top-level locators only and a record of
\* another identifier with an empty nested pieceCID beside a nested
\* pieceCid: only the second is returned
C28_Witness ==
    /\ listPc = "returned"
    /\ \E i \in 1..Len(FetchedStreams) :
         FetchedStreams[i] = Rec(Idd, MetaTopBoth, "0xc2", "0xo2")
    /\ Len(result) = 1
    /\ result[1].key = Idc
    /\ result[1].value.cid = Cid2

\* C25: the deletion check is one request with every merged identifier;
\* when these are more than the service's batch limit the request fails,
\* and list() returns every merged entry, whatever the ledger has deleted
C25_OverLimitCheckKeepsAll ==
    /\ Len(deletedRequests) <= 1
    /\ (deletedRequests # <<>> /\ Len(allFiles) > BatchLimit) =>
         /\ deletedRequests[1] = Keys(allFiles)
         /\ deletedResponses # <<>> =>
              /\ DeletionCheckFailed
              /\ listPc = "returned" /\ error = NoError
              /\ result = allFiles

\* the check named 101 identifiers, was answered 400, and the 101 entries
\* are returned
C25_Witness ==
    /\ listPc = "returned"
    /\ deletedRequests # <<>> /\ deletedResponses # <<>>
    /\ Len(deletedRequests[1]) = BatchLimit + 1
    /\ deletedResponses[1].status = 400
    /\ Len(result) = BatchLimit + 1

\* the optional number is a number list() uses as given
Supplied(number) == number # <<>> /\ number # NaN /\ number[1] # 0

\* C30: a pageSize that is absent, 0 or NaN is 100 in every request, and with
\* a maxPages that is absent, 0 or NaN each loop sends its first request
\* and ends only after a page that was not full
C30_ZeroCountsAsNotSupplied ==
    \A f \in Feeds :
      /\ \A k \in 1..Len(requests[f]) :
           requests[f][k].first =
             IF Supplied(options.pagination.pageSize)
             THEN options.pagination.pageSize[1]
             ELSE 100
      /\ ~Supplied(options.pagination.maxPages) =>
           /\ listPc # "idle" => Len(requests[f]) >= 1
           /\ loop[f].pc = "done" =>
                /\ Len(responses[f]) = Len(requests[f])
                /\ Len(responses[f][Len(responses[f])]
                         .body.permissionedFileDeployeds)
                     # requests[f][Len(requests[f])].first

\* called with pageSize 0 and maxPages 0, the owner loop has asked for a
\* second page of 100
C30_Witness ==
    /\ options.pagination = [pageSize |-> <<0>>, maxPages |-> <<0>>]
    /\ Len(requests["owner"]) = 2
    /\ requests["owner"][2] = [skip |-> 100, first |-> 100]

\* C26: a loop sends at most maxPages requests; and with no page bound, from
\* the feeds as the service serves them, a loop that has ended has taken a
\* page with fewer than pageSize records of the feed's kind, so that it
\* does not end while every page is full
C26_EndsOnlyAfterShortPage ==
    AsServed =>
      \A f \in Feeds :
        /\ maxPages # <<>> => Len(requests[f]) <= maxPages[1]
        /\ (maxPages = <<>> /\ loop[f].pc = "done") =>
             \E k \in 1..Len(responses[f]) :
               PrimaryCount(f, responses[f][k]) < pageSize

\* the error fetchPage threw in the loop of feed f
FailureOf(f) == FetchPage(responses[f][Len(responses[f])]).error

\* C27: when a loop has failed list() has rejected, with that loop's error
\* unless the other loop failed as well, and has sent no deletion check;
\* the other loop is not ended by it: it waits for its page or has ended by
\* its own condition
C27_FailureRejectsAtOnce ==
    \A f \in Feeds :
      loop[f].pc = "failed" =>
        LET g == Other(f)
        IN /\ listPc = "rejected" /\ result = <<>>
           /\ deletedRequests = <<>> /\ deletedResponses = <<>>
           /\ error \in {FailureOf(h) : h \in {h \in Feeds : loop[h].pc = "failed"}}
           /\ loop[g].pc \in {"awaiting", "done", "failed"}
           /\ loop[g].pc = "awaiting" => Outstanding(g) = 1
           /\ loop[g].pc = "done" =>
                ~(loop[g].hasMore /\ PageBelow(loop[g].page, maxPages))

\* the minter loop has failed on status 500 and list() has rejected with
\* it, while the owner loop waits for its third page
C27_Witness ==
    /\ loop["minter"].pc = "failed"
    /\ listPc = "rejected" /\ error.status = 500
    /\ loop["owner"].pc = "awaiting"
    /\ Len(requests["owner"]) = 3 /\ Len(responses["owner"]) = 2
    /\ deletedRequests = <<>>

\* the outcomes of a call are rate-limit errors up to position n
AllRateLimited(r, n) == \A i \in 1..n : r.outcomes[i].kind = "http429"

\* C29: requestWithRetry makes at most maxRetries requests, 3 when none is
\* given; every request but the last ended in a 429; it returns exactly
\* when the last request succeeded, rethrows an error other than 429 from
\* the request that raised it, and throws 'Max retries exceeded' exactly
\* after maxRetries 429s; the wait after the 429 of attempt n (from 0) is
\* min(retryAfter * 1000 * 2^n, 30000) and at most 30000
C29_RetryOnlyAfterRateLimit ==
    LET r == retryCall
        n == Len(r.outcomes)
        limit == IF r.maxRetries = <<>> THEN 3 ELSE r.maxRetries[1]
    IN /\ n <= limit
       /\ AllRateLimited(r, n - 1)
       /\ r.pc = "returned" <=> (n >= 1 /\ r.outcomes[n].kind = "ok")
       /\ (n >= 1 /\ r.outcomes[n].kind \in {"http500", "network"})
            => (r.pc = "threw" /\ r.error = r.outcomes[n].kind)
       /\ r.error = "Max retries exceeded"
            <=> (r.pc = "threw" /\ n = limit /\ AllRateLimited(r, n))
       /\ r.pc = "threw" => r.error # "none"
       /\ Len(r.delays) = Cardinality({i \in 1..n : r.outcomes[i].kind = "http429"})
       /\ \A i \in 1..Len(r.delays) :
            LET header == r.outcomes[i].retryAfter
                retryAfter == IF header = <<>> THEN 1 ELSE header[1]
                wait == retryAfter * 1000 * 2^(i - 1)
            IN IF header = NaN THEN r.delays[i] = NaN
               ELSE /\ r.delays[i] = <<IF wait < 30000 THEN wait ELSE 30000>>
                    /\ r.delays[i][1] <= 30000

\* called without maxRetries, three requests were answered 429 with
\* retry-after 8: the waits were 8000, 16000 and 30000 ms and the call threw
C29_Witness ==
    /\ retryCall.maxRetries = <<>>
    /\ retryCall.pc = "threw"
    /\ retryCall.error = "Max retries exceeded"
    /\ Len(retryCall.outcomes) = 3
    /\ \A i \in 1..3 : retryCall.outcomes[i].retryAfter = <<8>>
    /\ retryCall.delays = << <<8000>>, <<16000>>, <<30000>> >>

=============================================================================
